---- MODULE Spec2Model ----
(***************************************************************************)
(* A model of fastboot.c (the Kindle fastboot front end): the scan loop of *)
(* main() that turns argv into a queue of fb_queue_* calls, the -i vendor  *)
(* id conversion, do_oem_command, and the requirements parser              *)
(* (setup_requirements / setup_requirement_line / strip).                  *)
(*                                                                         *)
(* The queue itself lives behind fastboot.h; an entry of `queue` is the    *)
(* fb_queue_* call that main made, with the arguments it passed.           *)
(***************************************************************************)
EXTENDS Integers, Sequences, FiniteSets, TLC

VARIABLES
    argv,       \* the command line after the program name (never modified)
    argc,       \* main's argc: how many tokens of argv are still unconsumed
    pc,         \* "start", "scan", "open", "exec", "req", "exited"
    status,     \* Running, or how the process ended
    queue,      \* the fb_queue_* calls made so far, in order
    origin,     \* history, parallel to queue: what produced each entry
    sz,         \* main's local `unsigned sz` (Uninit until a load_file succeeds)
    vendor_id,  \* static unsigned short vendor_id
    serial,     \* static const char *serial
    loaded,     \* history: the file names load_file has returned data for
    listed,     \* history: list_devices() was called
    usb,        \* open_device() has returned a handle
    waiting,    \* open_device(): "< waiting for device >" was announced
    device,     \* open_device(): the usb_ifc_info last handed to match_fastboot
    executed,   \* whether fb_execute_queue was called, and with which entries
    reqbuf,     \* setup_requirements: the buffer `data` of `sz` bytes
    reqpos      \* setup_requirements: index of the first byte not yet scanned

vars == <<argv, argc, pc, status, queue, origin, sz, vendor_id, serial, loaded,
          listed, usb, waiting, device, executed, reqbuf, reqpos>>

mainVars == <<argv, argc, sz, vendor_id, serial, loaded, listed, usb, waiting, device,
              executed>>
reqVars == <<reqbuf, reqpos>>

----------------------------------------------------------------------------
(* Values *)

NULL == "<null>"

\* main's sz is <<n>> once a load has stored n in it, and Uninit before.
Uninit == <<>>

\* The process: still running, or how it ended.
Running == "running"
ExitOk == "exit 0"
ExitFail == "exit 1"
Crashed == "killed"

\* fb_execute_queue has not been called.
NotRun == [ran |-> FALSE, entries |-> <<>>]

\* What a read of an uninitialized `unsigned` may yield.
Indeterminate == {0, 1, 4096}

\* No usb_ifc_info has been handed to match_fastboot yet.
NoDevice == <<>>

----------------------------------------------------------------------------
(* Bounds of the model *)

MaxPhrases == 2
MaxChunks == 5

----------------------------------------------------------------------------
(* The file system seen by load_file: the files that exist, and their bytes *)

FileNames == {"img.bin", "big.bin", "reboot"}

FileBytes(fn) ==
    CASE fn = "img.bin" -> <<10, 20>>
      [] fn = "big.bin" -> <<30, 40, 50>>
      [] fn = "reboot"  -> <<60>>

\* load_file: the bytes and, through *_sz, their count; 0 (ok = FALSE) when
\* the file cannot be opened, and *_sz is then left alone.
load_file(fn) ==
    IF fn \in FileNames
    THEN [ok |-> TRUE, data |-> FileBytes(fn), sz |-> Len(FileBytes(fn))]
    ELSE [ok |-> FALSE]

----------------------------------------------------------------------------
(* Queue entries: the fb_queue_* calls of main *)

fb_queue_download(name, d, n) == [op |-> "download", name |-> name, data |-> d, sz |-> n]
fb_queue_flash(p, n) == [op |-> "flash", name |-> p, sz |-> n]
fb_queue_verify(p, n) == [op |-> "verify", name |-> p, sz |-> n]
fb_queue_erase(p) == [op |-> "erase", name |-> p]
fb_queue_check(p) == [op |-> "check", name |-> p]
fb_queue_display(var, pretty) == [op |-> "display", name |-> var, msg |-> pretty]
fb_queue_set(var, value, pretty) ==
    [op |-> "set", name |-> var, value |-> value, msg |-> pretty]
fb_queue_command(cmd, msg) == [op |-> "command", name |-> cmd, msg |-> msg]
fb_queue_reboot == [op |-> "reboot"]
fb_queue_require(name, invert, n, out) ==
    [op |-> "require", name |-> name, invert |-> invert, n |-> n, out |-> out]

----------------------------------------------------------------------------
(* The command line.  A token is a TLA+ string; Spell gives its characters  *)
(* for the code that reads a token byte by byte (strtoul).                  *)

RECURSIVE Rep(_, _)
Rep(str, n) ==
    IF n = 0 THEN ""
    ELSE IF n % 2 = 1 THEN str \o Rep(str, n - 1)
    ELSE LET half == Rep(str, n \div 2) IN half \o half

\* A token long enough that "oem " followed by it does not fit command[256].
LongLen == 252
LongTok == Rep("a", LongLen)

Spell(tok) ==
    CASE tok = "-s" -> <<"-", "s">>
      [] tok = "-i" -> <<"-", "i">>
      [] tok = "getvar" -> <<"g", "e", "t", "v", "a", "r">>
      [] tok = "setvar" -> <<"s", "e", "t", "v", "a", "r">>
      [] tok = "download" -> <<"d", "o", "w", "n", "l", "o", "a", "d">>
      [] tok = "verify" -> <<"v", "e", "r", "i", "f", "y">>
      [] tok = "flash" -> <<"f", "l", "a", "s", "h">>
      [] tok = "eraseall" -> <<"e", "r", "a", "s", "e", "a", "l", "l">>
      [] tok = "erase" -> <<"e", "r", "a", "s", "e">>
      [] tok = "check" -> <<"c", "h", "e", "c", "k">>
      [] tok = "boot" -> <<"b", "o", "o", "t">>
      [] tok = "continue" -> <<"c", "o", "n", "t", "i", "n", "u", "e">>
      [] tok = "oem" -> <<"o", "e", "m">>
      [] tok = "reboot" -> <<"r", "e", "b", "o", "o", "t">>
      [] tok = "powerdown" -> <<"p", "o", "w", "e", "r", "d", "o", "w", "n">>
      [] tok = "pass" -> <<"p", "a", "s", "s">>
      [] tok = "fail" -> <<"f", "a", "i", "l">>
      [] tok = "devices" -> <<"d", "e", "v", "i", "c", "e", "s">>
      [] tok = "SN1" -> <<"S", "N", "1">>
      [] tok = "version" -> <<"v", "e", "r", "s", "i", "o", "n">>
      [] tok = "mac" -> <<"m", "a", "c">>
      [] tok = "img.bin" -> <<"i", "m", "g", ".", "b", "i", "n">>
      [] tok = "big.bin" -> <<"b", "i", "g", ".", "b", "i", "n">>
      [] tok = "0x1949" -> <<"0", "x", "1", "9", "4", "9">>
      [] tok = "0x10000" -> <<"0", "x", "1", "0", "0", "0", "0">>
      [] tok = "010" -> <<"0", "1", "0">>
      [] tok = "" -> <<>>
      [] tok = "12ab" -> <<"1", "2", "a", "b">>
      [] tok = "foo" -> <<"f", "o", "o">>
      [] tok = "bar" -> <<"b", "a", "r">>
      [] tok = "bogus" -> <<"b", "o", "g", "u", "s">>
      [] tok = LongTok -> [i \in 1..LongLen |-> "a"]

\* The command lines tried: up to MaxPhrases of these token runs, concatenated.
\* The scanner sees only the tokens, so a run may be read differently from how
\* it is grouped here (`flash boot` followed by `reboot`).
Phrases ==
    { <<"-s", "SN1">>, <<"-s">>,
      <<"-i", "0x1949">>, <<"-i", "0x10000">>, <<"-i", "010">>, <<"-i", "">>,
      <<"-i", "12ab">>, <<"-i">>,
      <<"getvar", "version">>, <<"getvar">>,
      <<"setvar", "mac", "12ab">>, <<"setvar", "mac">>,
      <<"download", "img.bin">>, <<"download">>,
      <<"verify", "boot", "big.bin">>, <<"verify", "boot">>, <<"verify">>,
      <<"flash", "boot", "img.bin">>, <<"flash", "boot">>, <<"flash">>,
      <<"eraseall">>,
      <<"erase", "boot">>, <<"erase">>,
      <<"check", "boot">>, <<"check">>,
      <<"boot", "big.bin">>, <<"boot">>,
      <<"continue">>,
      <<"oem", "foo", "bar">>, <<"oem">>, <<"oem", LongTok>>,
      <<"reboot">>, <<"powerdown">>, <<"pass">>, <<"fail">>,
      <<"devices">>, <<"bogus">>,
      <<"download", "img.bin", "boot", "big.bin">>,
      <<"flash", "boot", "big.bin", "download", "img.bin">>,
      <<"getvar", "version", "verify", "boot", "img.bin", "erase", "boot">> }

RECURSIVE Flatten(_)
Flatten(ss) == IF ss = <<>> THEN <<>> ELSE Head(ss) \o Flatten(Tail(ss))

CommandLines ==
    { Flatten(ps) : ps \in UNION { [1..n -> Phrases] : n \in 0..MaxPhrases } }

\* What getenv("KINDLE_SERIAL") may return.
Environment == {NULL, "ENVSN"}

\* argv[k] of the C code, for 0 <= k < argc; argv[argc] is the null pointer.
Arg(k) == IF k < argc THEN argv[Len(argv) - argc + 1 + k] ELSE NULL

----------------------------------------------------------------------------
(* strtoul(nptr, &endptr, 0) on the characters of a token *)

IsSpace(ch) == ch \in {" ", "\t", "\n", "\r"}

DigitVal(ch) ==
    CASE ch = "0" -> 0 [] ch = "1" -> 1 [] ch = "2" -> 2 [] ch = "3" -> 3
      [] ch = "4" -> 4 [] ch = "5" -> 5 [] ch = "6" -> 6 [] ch = "7" -> 7
      [] ch = "8" -> 8 [] ch = "9" -> 9
      [] ch \in {"a", "A"} -> 10 [] ch \in {"b", "B"} -> 11
      [] ch \in {"c", "C"} -> 12 [] ch \in {"d", "D"} -> 13
      [] ch \in {"e", "E"} -> 14 [] ch \in {"f", "F"} -> 15
      [] OTHER -> 99

\* The first index >= i of c that holds no white space (Len(c) + 1: the NUL).
RECURSIVE SkipSpace(_, _)
SkipSpace(c, i) ==
    IF i <= Len(c) /\ IsSpace(c[i]) THEN SkipSpace(c, i + 1) ELSE i

\* The first index >= i of c that holds no digit of `base`.
RECURSIVE DigitsEnd(_, _, _)
DigitsEnd(c, i, base) ==
    IF i <= Len(c) /\ DigitVal(c[i]) < base THEN DigitsEnd(c, i + 1, base) ELSE i

\* The value of the digits c[i..j-1] in `base`.  ULONG_MAX is out of TLC's
\* range; the tokens tried have at most 7 digits, far from the overflow case.
RECURSIVE DigitsValue(_, _, _, _)
DigitsValue(c, i, j, base) ==
    IF j <= i THEN 0
    ELSE DigitsValue(c, i, j - 1, base) * base + DigitVal(c[j - 1])

\* [mag, neg, end]: the magnitude converted, whether a '-' negates it (the
\* result is then 2^64 - mag for mag > 0), and the index endptr points at.
strtoul(c) ==
    LET i0 == SkipSpace(c, 1)
        signed == i0 <= Len(c) /\ c[i0] \in {"+", "-"}
        neg == i0 <= Len(c) /\ c[i0] = "-"
        i1 == IF signed THEN i0 + 1 ELSE i0
        hex == /\ i1 + 2 <= Len(c)
               /\ c[i1] = "0"
               /\ c[i1 + 1] \in {"x", "X"}
               /\ DigitVal(c[i1 + 2]) < 16
        base == IF hex THEN 16 ELSE IF i1 <= Len(c) /\ c[i1] = "0" THEN 8 ELSE 10
        i2 == IF hex THEN i1 + 2 ELSE i1
        e == DigitsEnd(c, i2, base)
    IN  IF e = i2
        THEN [mag |-> 0, neg |-> FALSE, end |-> 1]
        ELSE [mag |-> DigitsValue(c, i2, e, base), neg |-> neg, end |-> e]

\* val & ~0xffff, for val the unsigned long strtoul returned.
HighBits(r) == (r.neg /\ r.mag > 0) \/ r.mag > 65535

\* main's test of the -i argument: the whole of it converted, within 16 bits.
VendorOk(tok) ==
    LET r == strtoul(Spell(tok))
    IN  ~(r.end # Len(Spell(tok)) + 1 \/ HighBits(r))

\* (unsigned short)val
VendorValue(tok) == strtoul(Spell(tok)).mag % 65536

----------------------------------------------------------------------------
(* Initial state: main(argc, argv) is entered, nothing has run *)

Init ==
    /\ argv \in CommandLines
    /\ argc = Len(argv)
    /\ pc = "start"
    /\ status = Running
    /\ queue = <<>>
    /\ origin = <<>>
    /\ sz = Uninit
    /\ vendor_id = 0
    /\ serial = NULL
    /\ loaded = <<>>
    /\ listed = FALSE
    /\ usb = FALSE
    /\ waiting = FALSE
    /\ device = NoDevice
    /\ executed = NotRun
    /\ reqbuf = <<>>
    /\ reqpos = 1

----------------------------------------------------------------------------
(* Helpers shared by the branches of the scan loop *)

\* exit(1), reached through usage() or die(): nothing else changes.
Exit1 ==
    /\ pc' = "exited"
    /\ status' = ExitFail
    /\ UNCHANGED <<argv, argc, queue, origin, sz, vendor_id, serial, loaded,
                   listed, usb, waiting, device, executed, reqbuf, reqpos>>

usage == Exit1
die == Exit1

\* skip(n) that forgets to move on.
skip_Stay(n) == argc' = argc

\* skip(n)
skip(n) == argc' = argc - n

\* The history entry for a queue entry made by the command at the current token.
From(fname) == [at |-> Len(argv) - argc + 1, fname |-> fname]

\* Enqueue with the new calls put at the head of the queue.
Enqueue_AtHead(es, fname) ==
    /\ queue' = es \o queue
    /\ origin' = [i \in 1..Len(es) |-> From(fname)] \o origin

\* Append the calls `es` (all made by the command at the current token).
Enqueue(es, fname) ==
    /\ queue' = queue \o es
    /\ origin' = origin \o [i \in 1..Len(es) |-> From(fname)]

\* The value a read of main's `sz` may give.
SzValues == IF sz = Uninit THEN Indeterminate ELSE {sz[1]}

Scanning(cmd) == pc = "scan" /\ argc > 0 /\ Arg(0) = cmd

\* What the branches that load no file and touch no option leave alone.
Rest == UNCHANGED <<argv, pc, status, sz, vendor_id, serial, loaded, listed, usb,
                    waiting, device, executed, reqbuf, reqpos>>

----------------------------------------------------------------------------
(* main, before the scan loop *)

Start ==
    /\ pc = "start"
    /\ IF argc = 0
       THEN usage
       ELSE IF Arg(0) = "devices"
       THEN /\ listed' = TRUE
            /\ pc' = "exited"
            /\ status' = ExitOk
            /\ UNCHANGED <<argv, argc, queue, origin, sz, vendor_id, serial, loaded,
                           usb, waiting, device, executed, reqbuf, reqpos>>
       ELSE /\ serial' \in Environment
            /\ pc' = "scan"
            /\ UNCHANGED <<argv, argc, status, queue, origin, sz, vendor_id, loaded,
                           listed, usb, waiting, device, executed, reqbuf, reqpos>>

----------------------------------------------------------------------------
(* The branches of the scan loop *)

OptSerial ==
    /\ Scanning("-s")
    /\ IF argc < 2
       THEN usage
       ELSE /\ serial' = Arg(1)
            /\ skip(2)
            /\ UNCHANGED <<argv, pc, status, queue, origin, sz, vendor_id, loaded,
                           listed, usb, waiting, device, executed, reqbuf, reqpos>>

OptVendor ==
    /\ Scanning("-i")
    /\ IF argc < 2
       THEN usage
       ELSE IF ~VendorOk(Arg(1))
       THEN die
       ELSE /\ vendor_id' = VendorValue(Arg(1))
            /\ skip(2)
            /\ UNCHANGED <<argv, pc, status, queue, origin, sz, serial, loaded,
                           listed, usb, waiting, device, executed, reqbuf, reqpos>>

Getvar ==
    /\ Scanning("getvar")
    /\ IF argc < 2
       THEN usage
       ELSE /\ Enqueue(<<fb_queue_display(Arg(1), Arg(1))>>, NULL)
            /\ skip(2)
            /\ Rest

\* Setvar asking for one token too few: require(2).
Setvar_Require2 ==
    /\ Scanning("setvar")
    /\ IF argc < 2
       THEN usage
       ELSE /\ Enqueue(<<fb_queue_set(Arg(1), Arg(2), Arg(1))>>, NULL)
            /\ skip(3)
            /\ Rest

Setvar ==
    /\ Scanning("setvar")
    /\ IF argc < 3
       THEN usage
       ELSE /\ Enqueue(<<fb_queue_set(Arg(1), Arg(2), Arg(1))>>, NULL)
            /\ skip(3)
            /\ Rest

\* The call a command makes last, after its optional download.
Primary(kind, n) ==
    CASE kind = "verify"   -> <<fb_queue_verify(Arg(1), n)>>
      [] kind = "flash"    -> <<fb_queue_flash(Arg(1), n)>>
      [] kind = "boot"     -> <<fb_queue_command("boot", "booting")>>
      [] kind = "download" -> <<>>

\* LoadAndQueue with the two calls in the wrong order: the command's own call
\* is queued before the download it needs.
LoadAndQueue_PrimaryFirst(kind, slot, fname, n) ==
    LET f == load_file(fname)
    IN  IF ~f.ok
        THEN die
        ELSE /\ sz' = <<f.sz>>
             /\ loaded' = Append(loaded, fname)
             /\ Enqueue(Primary(kind, f.sz)
                          \o <<fb_queue_download(slot, f.data, f.sz)>>, fname)
             /\ skip(n)
             /\ UNCHANGED <<argv, pc, status, vendor_id, serial, listed, usb,
                            waiting, device, executed, reqbuf, reqpos>>

\* LoadAndQueue with the size kept in a variable of its own once main's sz is
\* set: later loads no longer update sz.
LoadAndQueue_KeepSz(kind, slot, fname, n) ==
    LET f == load_file(fname)
    IN  IF ~f.ok
        THEN die
        ELSE /\ sz' = IF sz = Uninit THEN <<f.sz>> ELSE sz
             /\ loaded' = Append(loaded, fname)
             /\ Enqueue(<<fb_queue_download(slot, f.data, f.sz)>>
                          \o Primary(kind, f.sz), fname)
             /\ skip(n)
             /\ UNCHANGED <<argv, pc, status, vendor_id, serial, listed, usb,
                            waiting, device, executed, reqbuf, reqpos>>

\* LoadAndQueue with the read put off until the queue runs: the download is
\* queued by name and no file is read during the scan.
LoadAndQueue_Deferred(kind, slot, fname, n) ==
    /\ \E v \in SzValues :
          Enqueue(<<fb_queue_download(slot, <<>>, v)>> \o Primary(kind, v), fname)
    /\ skip(n)
    /\ Rest

\* A file name was given: load it (die when that fails), queue its download
\* under `slot` and then the command's own call, with the size just loaded.
LoadAndQueue(kind, slot, fname, n) ==
    LET f == load_file(fname)
    IN  IF ~f.ok
        THEN die
        ELSE /\ sz' = <<f.sz>>
             /\ loaded' = Append(loaded, fname)
             /\ Enqueue(<<fb_queue_download(slot, f.data, f.sz)>>
                          \o Primary(kind, f.sz), fname)
             /\ skip(n)
             /\ UNCHANGED <<argv, pc, status, vendor_id, serial, listed, usb,
                            waiting, device, executed, reqbuf, reqpos>>

\* No file name: only the command's own call, with whatever main's sz holds.
QueueWithoutFile(kind, n) ==
    /\ \E v \in SzValues : Enqueue(Primary(kind, v), NULL)
    /\ skip(n)
    /\ Rest

Download ==
    /\ Scanning("download")
    /\ IF argc < 2
       THEN usage
       ELSE LoadAndQueue("download", "data", Arg(1), 2)

Verify ==
    /\ Scanning("verify")
    /\ IF argc < 2
       THEN usage
       ELSE IF argc > 2
       THEN LoadAndQueue("verify", Arg(1), Arg(2), 3)
       ELSE QueueWithoutFile("verify", 2)

Flash ==
    /\ Scanning("flash")
    /\ IF argc < 2
       THEN usage
       ELSE IF argc > 2
       THEN LoadAndQueue("flash", Arg(1), Arg(2), 3)
       ELSE QueueWithoutFile("flash", 2)

EraseAll ==
    /\ Scanning("eraseall")
    /\ Enqueue(<<fb_queue_command("eraseall", "wiping the flash memory")>>, NULL)
    /\ skip(1)
    /\ Rest

Erase ==
    /\ Scanning("erase")
    /\ IF argc < 2
       THEN usage
       ELSE /\ Enqueue(<<fb_queue_erase(Arg(1))>>, NULL)
            /\ skip(2)
            /\ Rest

Check ==
    /\ Scanning("check")
    /\ IF argc < 2
       THEN usage
       ELSE /\ Enqueue(<<fb_queue_check(Arg(1))>>, NULL)
            /\ skip(2)
            /\ Rest

\* Boot that looks at the next token first: a token that spells a command or
\* an option is left for the scan instead of being taken as the file name.
Boot_KeywordAware ==
    /\ Scanning("boot")
    /\ IF argc > 1 /\ Arg(1) \notin {"reboot", "continue", "powerdown", "pass", "fail",
                                    "eraseall", "oem", "boot"}
       THEN LoadAndQueue("boot", "boot", Arg(1), 2)
       ELSE /\ Enqueue(Primary("boot", 0), NULL)
            /\ skip(1)
            /\ Rest

Boot ==
    /\ Scanning("boot")
    /\ IF argc > 1
       THEN LoadAndQueue("boot", "boot", Arg(1), 2)
       ELSE /\ Enqueue(Primary("boot", 0), NULL)
            /\ skip(1)
            /\ Rest

Continue ==
    /\ Scanning("continue")
    /\ Enqueue(<<fb_queue_command("continue", "resuming boot")>>, NULL)
    /\ skip(1)
    /\ Rest

Reboot ==
    /\ Scanning("reboot")
    /\ Enqueue(<<fb_queue_reboot>>, NULL)
    /\ skip(1)
    /\ Rest

Powerdown ==
    /\ Scanning("powerdown")
    /\ Enqueue(<<fb_queue_command("powerdown", "shutting down")>>, NULL)
    /\ skip(1)
    /\ Rest

Pass ==
    /\ Scanning("pass")
    /\ Enqueue(<<fb_queue_command("pass", "turning on led")>>, NULL)
    /\ skip(1)
    /\ Rest

Fail ==
    /\ Scanning("fail")
    /\ Enqueue(<<fb_queue_command("fail", "turning on led")>>, NULL)
    /\ skip(1)
    /\ Rest

KnownTokens ==
    {"-s", "-i", "getvar", "setvar", "download", "verify", "flash", "eraseall",
     "erase", "check", "boot", "continue", "oem", "reboot", "powerdown", "pass",
     "fail"}

Unknown ==
    /\ pc = "scan"
    /\ argc > 0
    /\ Arg(0) \notin KnownTokens
    /\ usage

----------------------------------------------------------------------------
(* do_oem_command *)

CommandSize == 256

\* The tokens argv[0..argc-1] joined by single spaces, as the strcat loop does.
RECURSIVE JoinArgs(_, _)
JoinArgs(k, n) ==
    IF k = n - 1 THEN Arg(k) ELSE Arg(k) \o " " \o JoinArgs(k + 1, n)

\* Oem with the keyword left out of the command: the loop starts at argv[1].
Oem_SkipKeyword ==
    /\ Scanning("oem")
    /\ IF argc <= 1
       THEN /\ argc' = 0
            /\ UNCHANGED <<queue, origin>>
            /\ Rest
       ELSE /\ Enqueue(<<fb_queue_command(JoinArgs(1, argc), "")>>, NULL)
            /\ argc' = 0
            /\ Rest

\* One token or none: nothing is queued.  Otherwise the joined tokens are
\* built in command[256] and queued.  A string that does not fit (with its
\* terminator) is written past the end of the array: the process may be
\* killed, or may carry on with the string it built.  Either way main's argc
\* becomes the 0 that do_oem_command returns.
Oem ==
    /\ Scanning("oem")
    /\ IF argc <= 1
       THEN /\ argc' = 0
            /\ UNCHANGED <<queue, origin>>
            /\ Rest
       ELSE LET command == JoinArgs(0, argc)
            IN  \/ /\ Enqueue(<<fb_queue_command(command, "")>>, NULL)
                   /\ argc' = 0
                   /\ Rest
                \/ /\ Len(command) + 1 > CommandSize
                   /\ pc' = "exited"
                   /\ status' = Crashed
                   /\ UNCHANGED <<argv, argc, queue, origin, sz, vendor_id, serial,
                                  loaded, listed, usb, waiting, device, executed, reqbuf,
                                  reqpos>>

----------------------------------------------------------------------------
(* main, after the scan loop *)

\* ScanDone with the loop condition off by one: `while (argc > 1)`.
ScanDone_OffByOne ==
    /\ pc = "scan"
    /\ argc <= 1
    /\ pc' = "open"
    /\ UNCHANGED <<argv, argc, status, queue, origin, sz, vendor_id, serial, loaded,
                   listed, usb, waiting, device, executed, reqbuf, reqpos>>

\* The loop condition argc > 0 fails; wants_reboot and wants_reboot_bootloader
\* are never set, so nothing more is queued.
ScanDone ==
    /\ pc = "scan"
    /\ argc = 0
    /\ pc' = "open"
    /\ UNCHANGED <<argv, argc, status, queue, origin, sz, vendor_id, serial, loaded,
                   listed, usb, waiting, device, executed, reqbuf, reqpos>>

\* open_device: one usb_open attempt; it either finds a device or announces
\* that it waits and tries again.
OpenDevice ==
    /\ pc = "open"
    /\ \/ /\ usb' = TRUE
          /\ pc' = "exec"
          /\ UNCHANGED <<waiting, device>>
       \/ /\ waiting' = TRUE
          /\ UNCHANGED <<usb, pc, device>>
    /\ UNCHANGED <<argv, argc, status, queue, origin, sz, vendor_id, serial, loaded,
                   listed, executed, reqbuf, reqpos>>

\* fb_execute_queue(usb); return 0.
ExecuteQueue ==
    /\ pc = "exec"
    /\ executed' = [ran |-> TRUE, entries |-> queue]
    /\ pc' = "exited"
    /\ status' = ExitOk
    /\ UNCHANGED <<argv, argc, queue, origin, sz, vendor_id, serial, loaded,
                   listed, usb, waiting, device, reqbuf, reqpos>>

Next ==
    \/ Start
    \/ OptSerial
    \/ OptVendor
    \/ Getvar
    \/ Setvar
    \/ Download
    \/ Verify
    \/ Flash
    \/ EraseAll
    \/ Erase
    \/ Check
    \/ Boot
    \/ Continue
    \/ Oem
    \/ Reboot
    \/ Powerdown
    \/ Pass
    \/ Fail
    \/ Unknown
    \/ ScanDone
    \/ OpenDevice
    \/ ExecuteQueue

Spec == Init /\ [][Next]_vars

----------------------------------------------------------------------------
(* The requirements parser: strip, setup_requirement_line,                 *)
(* setup_requirements.  Text is a sequence of one-character strings.       *)

MAX_OPTIONS == 32

NL == "\n"

KwReject == <<"r", "e", "j", "e", "c", "t", " ">>
KwRequire == <<"r", "e", "q", "u", "i", "r", "e", " ">>
Board == <<"b", "o", "a", "r", "d">>
Product == <<"p", "r", "o", "d", "u", "c", "t">>
Golden == <<"g", "o", "l", "d", "e", "n">>

\* The buffers tried: up to MaxChunks of these pieces, concatenated.
Chunks == { KwReject, KwRequire, Board, Golden, <<"=">>, <<"|">>, <<" ">>, <<NL>> }

Buffers ==
    { Flatten(cs) : cs \in UNION { [1..n -> Chunks] : n \in 0..MaxChunks } }

\* strncmp(s, p, Len(p)) = 0
StartsWith(s, p) == Len(s) >= Len(p) /\ SubSeq(s, 1, Len(p)) = p

\* strchr from index i: the index of the first ch at or after i, 0 when none.
IndexFrom(s, ch, i) ==
    LET hits == { k \in i..Len(s) : s[k] = ch }
    IN  IF hits = {} THEN 0 ELSE CHOOSE k \in hits : \A j \in hits : k <= j

\* The second loop of strip: drop white space from the end.
RECURSIVE TrimRight(_)
TrimRight(s) ==
    IF Len(s) > 0 /\ IsSpace(s[Len(s)]) THEN TrimRight(SubSeq(s, 1, Len(s) - 1)) ELSE s

strip(s) == TrimRight(SubSeq(s, SkipSpace(s, 1), Len(s)))

\* The splitting loop with its bound off by one: `count <= MAX_OPTIONS`.
SplitValues_CapOff(rest, count) ==
    LET bars == { k \in 1..Len(rest) : rest[k] = "|" }
        cuts == { k \in bars :
                    Cardinality({ j \in bars : j < k }) <= MAX_OPTIONS - count }
        cut(i) == IF i = 0 THEN 0
                  ELSE IF i > Cardinality(cuts) THEN Len(rest) + 1
                  ELSE CHOOSE k \in cuts : Cardinality({ j \in cuts : j <= k }) = i
    IN  [i \in 1..(Cardinality(cuts) + 1) |-> SubSeq(rest, cut(i - 1) + 1, cut(i) - 1)]

\* The splitting loop, entered with `rest` as val[count - 1]: each pass looks
\* for the first '|' of the last value (strchr), overwrites it with 0 and
\* starts the next value after it, while count < MAX_OPTIONS.  So the '|'
\* overwritten (`cuts`) are those with fewer than MAX_OPTIONS - count '|'
\* before them, and the values are the texts between them.
SplitValues(rest, count) ==
    LET bars == { k \in 1..Len(rest) : rest[k] = "|" }
        cuts == { k \in bars :
                    Cardinality({ j \in bars : j < k }) < MAX_OPTIONS - count }
        cut(i) == IF i = 0 THEN 0
                  ELSE IF i > Cardinality(cuts) THEN Len(rest) + 1
                  ELSE CHOOSE k \in cuts : Cardinality({ j \in cuts : j <= k }) = i
    IN  [i \in 1..(Cardinality(cuts) + 1) |-> SubSeq(rest, cut(i - 1) + 1, cut(i) - 1)]

\* setup_requirement_line treating a line without '=' as an error:
\* `if (x == 0) return -1;`.
setup_requirement_line_FailNoEq(line, mem) ==
    LET invert == StartsWith(line, KwReject)
        name0 == IF StartsWith(line, KwReject)
                 THEN SubSeq(line, Len(KwReject) + 1, Len(line))
                 ELSE IF StartsWith(line, KwRequire)
                 THEN SubSeq(line, Len(KwRequire) + 1, Len(line))
                 ELSE line
        x == IndexFrom(name0, "=", 1)
        val == SplitValues(SubSeq(name0, x + 1, Len(name0)), 1)
        name1 == strip(SubSeq(name0, 1, x - 1))
        name == IF name1 = Board THEN Product ELSE name1
        out == [n \in 1..Len(val) |-> strip(val[n])]
    IN  IF x = 0 \/ ~mem
        THEN [ret |-> -1, calls |-> <<>>]
        ELSE [ret |-> 0, calls |-> <<fb_queue_require(name, invert, Len(val), out)>>]

\* setup_requirement_line without the board -> product rename.
setup_requirement_line_NoRename(line, mem) ==
    LET invert == StartsWith(line, KwReject)
        name0 == IF StartsWith(line, KwReject)
                 THEN SubSeq(line, Len(KwReject) + 1, Len(line))
                 ELSE IF StartsWith(line, KwRequire)
                 THEN SubSeq(line, Len(KwRequire) + 1, Len(line))
                 ELSE line
        x == IndexFrom(name0, "=", 1)
        val == SplitValues(SubSeq(name0, x + 1, Len(name0)), 1)
        name == strip(SubSeq(name0, 1, x - 1))
        out == [n \in 1..Len(val) |-> strip(val[n])]
    IN  IF x = 0
        THEN [ret |-> 0, calls |-> <<>>]
        ELSE IF ~mem
        THEN [ret |-> -1, calls |-> <<>>]
        ELSE [ret |-> 0, calls |-> <<fb_queue_require(name, invert, Len(val), out)>>]

\* setup_requirement_line: [ret, calls], the value returned and the
\* fb_queue_require calls made.  `mem` tells whether malloc and strdup
\* succeed; they are reached only by a line that holds an '='.
setup_requirement_line(line, mem) ==
    LET invert == StartsWith(line, KwReject)
        name0 == IF StartsWith(line, KwReject)
                 THEN SubSeq(line, Len(KwReject) + 1, Len(line))
                 ELSE IF StartsWith(line, KwRequire)
                 THEN SubSeq(line, Len(KwRequire) + 1, Len(line))
                 ELSE line
        x == IndexFrom(name0, "=", 1)
        val == SplitValues(SubSeq(name0, x + 1, Len(name0)), 1)
        name1 == strip(SubSeq(name0, 1, x - 1))
        name == IF name1 = Board THEN Product ELSE name1
        out == [n \in 1..Len(val) |-> strip(val[n])]
    IN  IF x = 0
        THEN [ret |-> 0, calls |-> <<>>]
        ELSE IF ~mem
        THEN [ret |-> -1, calls |-> <<>>]
        ELSE [ret |-> 0, calls |-> <<fb_queue_require(name, invert, Len(val), out)>>]

InitReq ==
    /\ reqbuf \in Buffers
    /\ reqpos = 1
    /\ pc = "req"
    /\ argv = <<>>
    /\ argc = 0
    /\ status = Running
    /\ queue = <<>>
    /\ origin = <<>>
    /\ sz = Uninit
    /\ vendor_id = 0
    /\ serial = NULL
    /\ loaded = <<>>
    /\ listed = FALSE
    /\ usb = FALSE
    /\ waiting = FALSE
    /\ device = NoDevice
    /\ executed = NotRun

\* setup_requirements, up to and including the next '\n' of the buffer: the
\* line it ends is handed to setup_requirement_line; a non-zero return is
\* die("out of memory").
ReqLine ==
    /\ pc = "req"
    /\ IndexFrom(reqbuf, NL, reqpos) # 0
    /\ \E mem \in BOOLEAN :
         LET nl == IndexFrom(reqbuf, NL, reqpos)
             line == SubSeq(reqbuf, reqpos, nl - 1)
             r == setup_requirement_line(line, mem)
         IN  IF r.ret # 0
             THEN die
             ELSE /\ queue' = queue \o r.calls
                  /\ origin' = origin \o [i \in 1..Len(r.calls) |->
                                            [at |-> reqpos, fname |-> NULL]]
                  /\ reqpos' = nl + 1
                  /\ UNCHANGED <<pc, status, reqbuf>>
                  /\ UNCHANGED mainVars

\* ReqEnd that treats the bytes after the last '\n' as one more line.
ReqEnd_ParsesTail ==
    /\ pc = "req"
    /\ IndexFrom(reqbuf, NL, reqpos) = 0
    /\ LET r == setup_requirement_line(SubSeq(reqbuf, reqpos, Len(reqbuf)), TRUE)
       IN  /\ queue' = queue \o r.calls
           /\ origin' = origin \o [i \in 1..Len(r.calls) |->
                                     [at |-> reqpos, fname |-> NULL]]
    /\ pc' = "reqdone"
    /\ reqpos' = Len(reqbuf) + 1
    /\ UNCHANGED <<status, reqbuf>>
    /\ UNCHANGED mainVars

\* setup_requirements when no '\n' is left: the loop runs out of bytes and
\* the function returns.
ReqEnd ==
    /\ pc = "req"
    /\ IndexFrom(reqbuf, NL, reqpos) = 0
    /\ pc' = "reqdone"
    /\ reqpos' = Len(reqbuf) + 1
    /\ UNCHANGED <<status, queue, origin, reqbuf>>
    /\ UNCHANGED mainVars

NextReq == ReqLine \/ ReqEnd

SpecReq == InitReq /\ [][NextReq]_vars

----------------------------------------------------------------------------
(* The requirements parser on lines of many values: one line                *)
(* `[keyword]golden=v1|v2|...|vn`, for every n up to MaxSegments.           *)

MaxSegments == 34

\* The i-th value text of a line, by pattern: all alike, of lengths that cycle
\* through 1, 2, 3, or padded with blanks and empty at every other place.
Segment(pattern, i) ==
    CASE pattern = 1 -> <<"a">>
      [] pattern = 2 -> [k \in 1..((i % 3) + 1) |-> "a"]
      [] pattern = 3 -> IF i % 2 = 0 THEN <<>> ELSE <<" ", "b", " ">>

RECURSIVE JoinSegments(_, _, _)
JoinSegments(pattern, i, n) ==
    IF i = n THEN Segment(pattern, i)
    ELSE LET m == (i + n) \div 2
         IN  JoinSegments(pattern, i, m) \o <<"|">> \o JoinSegments(pattern, m + 1, n)

ValueLines ==
    { kw \o Golden \o <<"=">> \o JoinSegments(pattern, 1, n) \o <<NL>> :
        kw \in {<<>>, KwReject, KwRequire}, pattern \in 1..3, n \in 1..MaxSegments }

InitValues ==
    /\ reqbuf \in ValueLines
    /\ reqpos = 1
    /\ pc = "req"
    /\ argv = <<>>
    /\ argc = 0
    /\ status = Running
    /\ queue = <<>>
    /\ origin = <<>>
    /\ sz = Uninit
    /\ vendor_id = 0
    /\ serial = NULL
    /\ loaded = <<>>
    /\ listed = FALSE
    /\ usb = FALSE
    /\ waiting = FALSE
    /\ device = NoDevice
    /\ executed = NotRun

SpecValues == InitValues /\ [][NextReq]_vars

----------------------------------------------------------------------------
(* open_device with the callback it gives usb_open: match_fastboot on the   *)
(* usb_ifc_info of an attached device, under the filters vendor_id, serial. *)

Lab126 == 6473
FastbootClass == 255
FastbootSubclass == 66
FastbootProtocol == 3

\* The interfaces usb_open may find attached.
Interfaces ==
    [dev_vendor : {Lab126, 6353, 2996},
     ifc_class : {FastbootClass, 8},
     ifc_subclass : {FastbootSubclass, 6},
     ifc_protocol : {FastbootProtocol, 1},
     serial_number : {"SN1", "SN2"}]

\* The values main may have left in vendor_id (0 when no -i was given).
VendorFilters == {0, Lab126, 6353, 8}
SerialFilters == {NULL, "SN1", "ENVSN"}

\* match_fastboot with the vendor test open to every vendor when no -i was given.
match_fastboot_AnyVendor(info) ==
    IF vendor_id # 0 /\ info.dev_vendor # vendor_id THEN -1
    ELSE IF info.ifc_class # FastbootClass THEN -1
    ELSE IF info.ifc_subclass # FastbootSubclass THEN -1
    ELSE IF info.ifc_protocol # FastbootProtocol THEN -1
    ELSE IF serial # NULL /\ serial # info.serial_number THEN -1
    ELSE 0

\* match_fastboot: 0 when the interface is accepted, -1 otherwise.
match_fastboot(info) ==
    IF ~(vendor_id # 0 /\ info.dev_vendor = vendor_id) /\ info.dev_vendor # Lab126 THEN -1
    ELSE IF info.ifc_class # FastbootClass THEN -1
    ELSE IF info.ifc_subclass # FastbootSubclass THEN -1
    ELSE IF info.ifc_protocol # FastbootProtocol THEN -1
    ELSE IF serial # NULL /\ serial # info.serial_number THEN -1
    ELSE 0

\* The scan is over: main is about to call open_device under some filters.
InitMatch ==
    /\ argv = <<>>
    /\ argc = 0
    /\ pc = "open"
    /\ status = Running
    /\ queue = <<>>
    /\ origin = <<>>
    /\ sz = Uninit
    /\ vendor_id \in VendorFilters
    /\ serial \in SerialFilters
    /\ loaded = <<>>
    /\ listed = FALSE
    /\ usb = FALSE
    /\ waiting = FALSE
    /\ device = NoDevice
    /\ executed = NotRun
    /\ reqbuf = <<>>
    /\ reqpos = 1

\* One usb_open(match_fastboot) of open_device's loop, meeting one attached
\* interface: accepted, it is the handle returned; rejected, the wait is
\* announced and the loop tries again.
OpenDeviceMatching ==
    /\ pc = "open"
    /\ \E info \in Interfaces :
          /\ device' = <<info>>
          /\ IF match_fastboot(info) = 0
             THEN /\ usb' = TRUE
                  /\ pc' = "exec"
                  /\ UNCHANGED waiting
             ELSE /\ waiting' = TRUE
                  /\ UNCHANGED <<usb, pc>>
    /\ UNCHANGED <<argv, argc, status, queue, origin, sz, vendor_id, serial, loaded,
                   listed, executed, reqbuf, reqpos>>

NextMatch == OpenDeviceMatching \/ ExecuteQueue

SpecMatch == InitMatch /\ [][NextMatch]_vars

----------------------------------------------------------------------------
(* Properties *)

\* The entries of the kinds that take an optional file name.
IsFlashOrVerify(e) == e.op \in {"flash", "verify"}

\* The scan loop has been left without an error exit.
ScanFinished == pc \in {"open", "exec"} \/ (pc = "exited" /\ status = ExitOk /\ ~listed)

\* C1: the device is opened and the queue executed only after the scan loop
\* has consumed every token without an error; a run that ends in usage() or
\* die() exits with status 1 and has executed nothing, whatever it had queued.
C1_ExecuteOnlyAfterFullScan ==
    /\ (pc \in {"open", "exec"} \/ usb \/ executed.ran)
         => (argc = 0 /\ status # ExitFail /\ status # Crashed)
    /\ executed.ran => (executed.entries = queue /\ status = ExitOk)
    /\ status = ExitFail => (pc = "exited" /\ ~usb /\ ~executed.ran)
    /\ (pc = "exited" /\ ~executed.ran /\ ~listed) => status # ExitOk

\* A run that queued entries and then hit a usage error.
C1_Witness ==
    /\ status = ExitFail
    /\ Len(queue) >= 2
    /\ argc > 0
    /\ ~executed.ran

\* C2: a Flash or Verify entry made by a command that was given a file name
\* comes right after a Download entry with the same partition name, the
\* file's bytes and the file's length, which is also the entry's own length;
\* `flash boot img.bin` queues exactly that Download and that Flash.
C2_DownloadPrecedesFlash ==
    /\ \A i \in 1..Len(queue) :
         (IsFlashOrVerify(queue[i]) /\ origin[i].fname # NULL) =>
            /\ i > 1
            /\ argv[origin[i].at] = queue[i].op
            /\ argv[origin[i].at + 2] = origin[i].fname
            /\ queue[i].name = argv[origin[i].at + 1]
            /\ queue[i].sz = Len(FileBytes(origin[i].fname))
            /\ queue[i - 1] = [op |-> "download", name |-> argv[origin[i].at + 1],
                               data |-> FileBytes(origin[i].fname),
                               sz |-> Len(FileBytes(origin[i].fname))]
    /\ (argv = <<"flash", "boot", "img.bin">> /\ ScanFinished) =>
         queue = << [op |-> "download", name |-> "boot", data |-> <<10, 20>>, sz |-> 2],
                    [op |-> "flash", name |-> "boot", sz |-> 2] >>

\* `flash boot img.bin` ran to the end and its queue was executed.
C2_Witness ==
    /\ argv = <<"flash", "boot", "img.bin">>
    /\ executed.ran
    /\ Len(executed.entries) = 2

\* No Download has been queued before entry i.
NoEarlierDownload(i) == \A j \in 1..(i - 1) : queue[j].op # "download"

\* C3 (as claimed): a Flash or Verify entry made without a file name, with no
\* Download queued before it, carries length 0; `flash boot` queues exactly
\* Flash(boot, 0).
C3_LengthZeroWithoutLoad ==
    /\ \A i \in 1..Len(queue) :
         (IsFlashOrVerify(queue[i]) /\ origin[i].fname = NULL /\ NoEarlierDownload(i))
            => queue[i].sz = 0
    /\ (argv = <<"flash", "boot">> /\ ScanFinished) =>
         queue = << [op |-> "flash", name |-> "boot", sz |-> 0] >>

\* The index of the last Download queued before entry i (0 when none).
LastDownloadBefore(i) ==
    LET js == { j \in 1..(i - 1) : queue[j].op = "download" }
    IN  IF js = {} THEN 0 ELSE CHOOSE j \in js : \A k \in js : k <= j

\* C4: a Flash or Verify entry made without a file name, after at least one
\* file load, is the only entry its command queued and carries the length of
\* the file loaded last before it.
C4_LengthOfLatestLoad ==
    \A i \in 1..Len(queue) :
       (IsFlashOrVerify(queue[i]) /\ origin[i].fname = NULL /\ ~NoEarlierDownload(i)) =>
          /\ queue[i].sz = Len(FileBytes(origin[LastDownloadBefore(i)].fname))
          /\ loaded # <<>>
          /\ \A j \in 1..Len(queue) : origin[j].at = origin[i].at => j = i
          /\ argv[origin[i].at] = queue[i].op
          /\ queue[i].name = argv[origin[i].at + 1]

\* Two files of different lengths were loaded, then `flash boot` was queued
\* with the length of the second.
C4_Witness ==
    /\ argv = <<"download", "img.bin", "boot", "big.bin", "flash", "boot">>
    /\ executed.ran
    /\ loaded = <<"img.bin", "big.bin">>
    /\ queue[Len(queue)] = [op |-> "flash", name |-> "boot", sz |-> 3]

\* The tokens not yet consumed, the current one first.
Remaining == SubSeq(argv, Len(argv) - argc + 1, Len(argv))

\* Tokens joined by single spaces.
RECURSIVE JoinTokens(_)
JoinTokens(ts) ==
    IF ts = <<>> THEN ""
    ELSE IF Len(ts) = 1 THEN ts[1]
    ELSE ts[1] \o " " \o JoinTokens(Tail(ts))

AtCommand(cmd) == pc = "scan" /\ argc > 0 /\ argv[Len(argv) - argc + 1] = cmd

\* C5 (as claimed): `oem` alone queues nothing and raises no error; otherwise
\* one GenericCommand is queued whose name is the tokens after the keyword,
\* joined by single spaces, with an empty message.
C5_OemExcludesKeyword ==
    [][AtCommand("oem") =>
         IF argc = 1
         THEN queue' = queue /\ status' = Running
         ELSE queue' = Append(queue, [op |-> "command",
                                      name |-> JoinTokens(Tail(Remaining)),
                                      msg |-> ""])]_vars

\* C5 (amended): `oem` alone queues nothing, raises no error and ends the
\* scan; otherwise, when the assembled string and its terminator fit the 256
\* bytes of `command`, one GenericCommand is queued for the rest of the line,
\* whose name is the keyword `oem` and the tokens after it joined by single
\* spaces, with an empty message: `oem foo bar` queues "oem foo bar".
C5_OemIncludesKeyword ==
    /\ [][AtCommand("oem") =>
            IF argc = 1
            THEN queue' = queue /\ status' = Running /\ argc' = 0 /\ pc' = "scan"
            ELSE IF Len(JoinTokens(Remaining)) + 1 <= 256
            THEN /\ queue' = Append(queue, [op |-> "command",
                                            name |-> JoinTokens(Remaining),
                                            msg |-> ""])
                 /\ status' = Running
                 /\ argc' = 0
            ELSE TRUE]_vars
    /\ []((argv = <<"oem", "foo", "bar">> /\ ScanFinished) =>
            queue = << [op |-> "command", name |-> "oem foo bar", msg |-> ""] >>)

\* `oem foo bar` ran to the end; its one command was executed.
C5_Witness ==
    /\ argv = <<"oem", "foo", "bar">>
    /\ executed.ran
    /\ Len(executed.entries) = 1

\* The tokens each command or option needs after its name.
Arity(cmd) ==
    CASE cmd \in {"getvar", "download", "verify", "flash", "erase", "check", "-s", "-i"} -> 1
      [] cmd = "setvar" -> 2
      [] OTHER -> 0

\* The names the scan loop knows (`devices` is known only as the first token,
\* which main handles before the loop).
CommandTable ==
    {"-s", "-i", "getvar", "setvar", "download", "verify", "flash", "boot", "erase",
     "check", "eraseall", "continue", "reboot", "powerdown", "pass", "fail", "oem"}

\* C6: a command or option met with fewer tokens after it than it requires,
\* or a token that is no known command or option, ends the scan in the usage
\* exit (status 1) and queues nothing; `getvar` alone queues nothing.
C6_ArityAndUnknownAreUsageErrors ==
    /\ [][(/\ pc = "scan"
           /\ argc > 0
           /\ \/ argc - 1 < Arity(Remaining[1])
              \/ Remaining[1] \notin CommandTable)
            => (pc' = "exited" /\ status' = ExitFail /\ queue' = queue)]_vars
    /\ [](argv = <<"getvar">> => (queue = <<>> /\ ~executed.ran))

\* `setvar mac`, one token short, after another command had queued an entry.
C6_Witness ==
    /\ status = ExitFail
    /\ argc = 2
    /\ Remaining = <<"setvar", "mac">>
    /\ Len(queue) >= 1

\* An unsigned integer literal as the claim reads it: decimal digits, or 0x
\* and hexadecimal digits; and its value.
IsDecimalLiteral(c) == Len(c) > 0 /\ \A i \in 1..Len(c) : DigitVal(c[i]) < 10

IsHexLiteral(c) ==
    /\ Len(c) > 2
    /\ c[1] = "0"
    /\ c[2] \in {"x", "X"}
    /\ \A i \in 3..Len(c) : DigitVal(c[i]) < 16

RECURSIVE LiteralDigits(_, _, _)
LiteralDigits(c, from, base) ==
    IF Len(c) < from THEN 0
    ELSE LiteralDigits(SubSeq(c, 1, Len(c) - 1), from, base) * base + DigitVal(c[Len(c)])

LiteralValue(c) ==
    IF IsHexLiteral(c) THEN LiteralDigits(c, 3, 16) ELSE LiteralDigits(c, 1, 10)

IsLiteral16(c) == (IsDecimalLiteral(c) \/ IsHexLiteral(c)) /\ LiteralValue(c) <= 65535

\* C7 (as claimed): the -i value is accepted only if the whole of it is an
\* unsigned integer literal, decimal or 0x-prefixed, of at most 0xFFFF, and
\* the vendor filter is then that value; otherwise the run ends with an error,
\* the filter unchanged and no later token processed.  The filter is always
\* within 0..65535.
C7_VendorLiteral ==
    /\ [][(AtCommand("-i") /\ argc >= 2) =>
            IF IsLiteral16(Spell(Remaining[2]))
            THEN vendor_id' = LiteralValue(Spell(Remaining[2])) /\ status' = Running
            ELSE /\ status' = ExitFail
                 /\ pc' = "exited"
                 /\ vendor_id' = vendor_id
                 /\ argc' = argc]_vars
    /\ [](vendor_id \in 0..65535)

\* The index of the '\n' that ends the line starting at p (0: unterminated).
LineEnd(p) ==
    LET ends == { k \in p..Len(reqbuf) : reqbuf[k] = "\n" }
    IN  IF ends = {} THEN 0 ELSE CHOOSE k \in ends : \A j \in ends : k <= j

\* The text of the terminated line starting at p.
LineAt(p) == SubSeq(reqbuf, p, LineEnd(p) - 1)

HasEquals(s) == \E k \in 1..Len(s) : s[k] = "="

IsBlank(s) == \A k \in 1..Len(s) : IsSpace(s[k])

\* The parser stands before a terminated line.
AtLine == pc = "req" /\ LineEnd(reqpos) # 0

\* C8 (as claimed): a line without '=' (and not blank) aborts the parsing of
\* the buffer with a fatal error.
C8_NoEqualsIsFatal ==
    [][(AtLine /\ ~HasEquals(LineAt(reqpos)) /\ ~IsBlank(LineAt(reqpos)))
          => (pc' = "exited" /\ status' = ExitFail)]_vars

\* C8 (amended): a line without '=' is skipped: it queues no record and
\* raises no error, the records of earlier lines stay queued, and parsing
\* goes on with the line after it.
C8_NoEqualsIsSkipped ==
    [][(AtLine /\ ~HasEquals(LineAt(reqpos)))
          => /\ queue' = queue
             /\ status' = Running
             /\ pc' = "req"
             /\ reqpos' = LineEnd(reqpos) + 1]_vars

\* `golden=` was queued, then the line `board` was passed over, and the
\* parser returned with the first record still queued.
C8_Witness ==
    /\ reqbuf = Golden \o <<"=", "\n">> \o Board \o <<"\n">>
    /\ pc = "reqdone"
    /\ status = Running
    /\ Len(queue) = 1

\* C9 (as claimed): no requirement record with an empty name is ever queued.
C9_NoEmptyName ==
    \A i \in 1..Len(queue) : queue[i].op = "require" => queue[i].name # <<>>

\* t is s without its leading and trailing white space.
IsTrimOf(t, s) ==
    \E a \in 0..Len(s) : \E b \in 0..(Len(s) - a) :
       /\ t = SubSeq(s, a + 1, Len(s) - b)
       /\ \A k \in 1..a : IsSpace(s[k])
       /\ \A k \in (Len(s) - b + 1)..Len(s) : IsSpace(s[k])
       /\ t # <<>> => (~IsSpace(t[1]) /\ ~IsSpace(t[Len(t)]))

\* The line with its leading keyword, if any, removed.
AfterKeyword(line) ==
    IF Len(line) >= 7 /\ SubSeq(line, 1, 7) = <<"r", "e", "j", "e", "c", "t", " ">>
    THEN SubSeq(line, 8, Len(line))
    ELSE IF Len(line) >= 8 /\ SubSeq(line, 1, 8) = <<"r", "e", "q", "u", "i", "r", "e", " ">>
    THEN SubSeq(line, 9, Len(line))
    ELSE line

\* The text before the first '=' of s.
BeforeEquals(s) ==
    SubSeq(s, 1, (CHOOSE k \in 1..Len(s) : s[k] = "=" /\ \A j \in 1..(k - 1) : s[j] # "=") - 1)

\* C10: the record queued for a line has invert = TRUE exactly when the line
\* starts with `reject `, and its name is the text before the first '=' (the
\* keyword removed) without surrounding white space, with the exact name
\* `board` replaced by `product`; `reject board=golden` queues
\* {product, invert, [golden]}.
C10_InvertAndName ==
    /\ \A i \in 1..Len(queue) :
         LET line == LineAt(origin[i].at)
             before == BeforeEquals(AfterKeyword(line))
         IN  /\ queue[i].op = "require"
             /\ HasEquals(line)
             /\ queue[i].invert =
                  (Len(line) >= 7 /\ SubSeq(line, 1, 7) = <<"r", "e", "j", "e", "c", "t", " ">>)
             /\ IF IsTrimOf(<<"b", "o", "a", "r", "d">>, before)
                THEN queue[i].name = <<"p", "r", "o", "d", "u", "c", "t">>
                ELSE IsTrimOf(queue[i].name, before)
    /\ (reqbuf = KwReject \o Board \o <<"=">> \o Golden \o <<"\n">> /\ pc = "reqdone") =>
         queue = << [op |-> "require", name |-> <<"p", "r", "o", "d", "u", "c", "t">>,
                     invert |-> TRUE, n |-> 1, out |-> <<Golden>>] >>

\* `reject board=golden` was parsed and its record queued.
C10_Witness ==
    /\ reqbuf = KwReject \o Board \o <<"=">> \o Golden \o <<"\n">>
    /\ pc = "reqdone"
    /\ Len(queue) = 1
    /\ queue[1].invert

\* The text after the first '=' of s.
AfterEquals(s) ==
    SubSeq(s, (CHOOSE k \in 1..Len(s) : s[k] = "=" /\ \A j \in 1..(k - 1) : s[j] # "=") + 1,
           Len(s))

\* The position of the k-th '|' of s; 0 for k = 0.
BarAt(s, k) ==
    IF k = 0 THEN 0
    ELSE CHOOSE j \in 1..Len(s) :
           s[j] = "|" /\ Cardinality({ i \in 1..j : s[i] = "|" }) = k

BarCount(s) == Cardinality({ i \in 1..Len(s) : s[i] = "|" })

\* C11: a record has between 1 and 32 values, in the order of the line and
\* with duplicates kept: the text after the first '=' cut at its '|' from the
\* left, each piece without surrounding white space; once 32 values exist no
\* further '|' is cut, so the 32nd value is the whole remainder, '|' included.
C11_AtMost32Values ==
    \A i \in 1..Len(queue) :
       LET text == AfterEquals(AfterKeyword(LineAt(origin[i].at)))
           n == IF BarCount(text) + 1 < 32 THEN BarCount(text) + 1 ELSE 32
       IN  /\ queue[i].n = n
           /\ Len(queue[i].out) = n
           /\ n >= 1 /\ n <= 32
           /\ \A k \in 1..n :
                IsTrimOf(queue[i].out[k],
                         SubSeq(text, BarAt(text, k - 1) + 1,
                                IF k = n THEN Len(text) ELSE BarAt(text, k) - 1))

\* A line of more than 32 values was parsed: its record has 32 values and
\* the last holds the '|' that were not cut.
C11_Witness ==
    /\ pc = "reqdone"
    /\ Len(queue) = 1
    /\ queue[1].n = 32
    /\ \E k \in 1..Len(queue[1].out[32]) : queue[1].out[32][k] = "|"
    /\ queue[1].out[1] # queue[1].out[2]

\* C12 (as claimed): once a command has been recognized (it has queued an
\* entry), no later token changes the serial filter or the vendor-id filter.
C12_FiltersFixedAfterFirstCommand ==
    [][queue # <<>> => (serial' = serial /\ vendor_id' = vendor_id)]_vars

\* Only -s/-i options and their values have been consumed so far.
OnlyOptionsConsumed ==
    /\ queue = <<>>
    /\ (Len(argv) - argc) % 2 = 0
    /\ \A k \in 1..(Len(argv) - argc) : k % 2 = 1 => argv[k] \in {"-s", "-i"}

\* C13 (as claimed): `devices`, as the first token or after -s/-i options,
\* lists the devices and ends the run successfully, with nothing queued and
\* nothing executed; it is never rejected as an unknown command.
C13_DevicesAfterOptions ==
    [][(/\ pc \in {"start", "scan"}
        /\ argc > 0
        /\ Remaining[1] = "devices"
        /\ OnlyOptionsConsumed)
          => (listed' /\ status' = ExitOk /\ queue' = <<>> /\ ~executed'.ran)]_vars

\* The run has ended in a usage error: no token at all, a token that is no
\* command, a command with too few arguments, or a vendor id -i rejects.
UsageErrorState ==
    /\ pc = "exited"
    /\ status = ExitFail
    /\ reqbuf = <<>>
    /\ \/ argc = 0
       \/ Remaining[1] \notin CommandTable
       \/ argc - 1 < Arity(Remaining[1])
       \/ Remaining[1] = "-i" /\ ~VendorOk(Remaining[2])

\* The queue positions that hold a Download.
DownloadsQueued == {i \in 1..Len(queue) : queue[i].op = "download"}

\* The files loaded are exactly the files of the downloads queued, in order.
LoadedAreTheDownloads ==
    /\ Len(loaded) = Cardinality(DownloadsQueued)
    /\ \A i \in DownloadsQueued :
          loaded[Cardinality({j \in DownloadsQueued : j <= i})] = origin[i].fname

\* C14 (as claimed): on every run that ends in a usage error, no file has been
\* loaded and no device has been opened before the error.
C14_UsageErrorBeforeAnyFileOrDevice ==
    UsageErrorState => (loaded = <<>> /\ ~usb /\ ~waiting /\ ~executed.ran)

\* C14 (amended): on every run that ends in a usage error, no device has been
\* opened or waited for and nothing has been executed, but the file of every
\* download queued by the commands before the offending token has already
\* been loaded.
C14_UsageErrorBeforeAnyDevice ==
    UsageErrorState =>
        (~usb /\ ~waiting /\ ~listed /\ ~executed.ran /\ LoadedAreTheDownloads)

C14_Witness ==
    /\ UsageErrorState
    /\ argv = <<"flash", "boot", "img.bin", "bogus">>
    /\ loaded = <<"img.bin">>
    /\ Len(queue) = 2

\* The kind of entry a command queues as its own.
PrimaryOp(cmd) ==
    CASE cmd = "getvar" -> "display"
      [] cmd = "setvar" -> "set"
      [] cmd \in {"download", "verify", "flash", "erase", "check", "reboot"} -> cmd
      [] OTHER -> "command"

\* The kinds of entry the command at the current token queues when the scan
\* goes on after it: none for an option and for a lone `oem`, a Download first
\* when a file name follows flash/verify <p> or boot.
ExpectedOps ==
    LET cmd == Remaining[1]
    IN  IF cmd \in {"-s", "-i"} \/ (cmd = "oem" /\ argc <= 1) THEN <<>>
        ELSE IF (cmd \in {"flash", "verify"} /\ argc > 2) \/ (cmd = "boot" /\ argc > 1)
        THEN <<"download", PrimaryOp(cmd)>>
        ELSE <<PrimaryOp(cmd)>>

\* Every queue entry is either the own entry of the command that made it, and
\* then the last entry of that command, or the Download of a named file placed
\* directly before that own entry; entries lie in the order of their commands.
QueueFollowsRecognition ==
    \A i \in 1..Len(queue) :
        LET cmd == argv[origin[i].at]
            last == i = Len(queue) \/ origin[i + 1].at > origin[i].at
        IN  /\ cmd \in CommandTable \ {"-s", "-i"}
            /\ i > 1 => origin[i - 1].at <= origin[i].at
            /\ \/ queue[i].op = PrimaryOp(cmd) /\ last
               \/ /\ queue[i].op = "download"
                  /\ origin[i].fname # NULL
                  /\ ~last
                  /\ queue[i + 1].op = PrimaryOp(cmd)

\* C15: the queue only grows at its end, in the order of recognition: every
\* step leaves the old queue as a prefix of the new one; a scan step that goes
\* on appends exactly the entries of the command it recognized (its own entry,
\* preceded by its Download when a file name was given), an option appends
\* nothing and so does a step that ends the run; hence the own entries in the
\* queue are in the order of the commands recognized.
C15_QueueAppendOnlyInOrder ==
    /\ [](QueueFollowsRecognition)
    /\ [][/\ Len(queue') >= Len(queue)
          /\ SubSeq(queue', 1, Len(queue)) = queue]_vars
    /\ [][(pc = "scan" /\ argc > 0 /\ Remaining[1] \in CommandTable) =>
            IF pc' = "scan"
            THEN /\ Len(queue') = Len(queue) + Len(ExpectedOps)
                 /\ \A k \in 1..Len(ExpectedOps) :
                       /\ queue'[Len(queue) + k].op = ExpectedOps[k]
                       /\ origin'[Len(queue) + k].at = Len(argv) - argc + 1
            ELSE queue' = queue]_vars

C15_Witness ==
    /\ argv = <<"getvar", "version", "verify", "boot", "img.bin", "erase", "boot">>
    /\ executed.ran
    /\ Len(executed.entries) = 4
    /\ executed.entries[2].op = "download"
    /\ executed.entries[4].op = "erase"

\* The command at the current token is flash <p>, verify <p> or boot with at
\* least one more token after its mandatory argument.
FileTokenFollows ==
    /\ pc = "scan"
    /\ argc > 0
    /\ \/ Remaining[1] \in {"flash", "verify"} /\ argc >= 3
       \/ Remaining[1] = "boot" /\ argc >= 2

\* C16: for flash <p>, verify <p> and boot, a token that remains after the
\* mandatory argument is consumed as the file name and loaded during the scan
\* whatever it spells: the Download of its bytes and then the command's own
\* entry are queued and the scan goes on after the file token; when the load
\* fails the run ends at once with status 1 and nothing is queued.  So
\* `boot reboot` and `flash boot reboot` never queue a Reboot.
C16_NextTokenIsTheFile ==
    /\ [][FileTokenFollows =>
            LET cmd == Remaining[1]
                n == IF cmd = "boot" THEN 2 ELSE 3
                f == Remaining[n]
                slot == IF cmd = "boot" THEN "boot" ELSE Remaining[2]
                bytes == FileBytes(f)
                own == IF cmd = "boot"
                       THEN [op |-> "command", name |-> "boot", msg |-> "booting"]
                       ELSE [op |-> cmd, name |-> slot, sz |-> Len(bytes)]
            IN  IF f \in FileNames
                THEN /\ pc' = "scan"
                     /\ argc' = argc - n
                     /\ loaded' = Append(loaded, f)
                     /\ queue' = queue \o
                            << [op |-> "download", name |-> slot, data |-> bytes,
                                sz |-> Len(bytes)], own >>
                ELSE /\ pc' = "exited"
                     /\ status' = ExitFail
                     /\ queue' = queue
                     /\ loaded' = loaded]_vars
    /\ [](argv \in {<<"boot", "reboot">>, <<"flash", "boot", "reboot">>}
            => \A i \in 1..Len(queue) : queue[i].op # "reboot")

C16_Witness ==
    /\ argv = <<"boot", "reboot">>
    /\ executed.ran
    /\ loaded = <<"reboot">>
    /\ Len(executed.entries) = 2
    /\ executed.entries[1].op = "download"
    /\ executed.entries[2].name = "boot"

\* The interface last handed to match_fastboot has the fastboot class,
\* subclass and protocol and passes the serial filter.
InterfaceAndSerialOk ==
    /\ device[1].ifc_class = 255
    /\ device[1].ifc_subclass = 66
    /\ device[1].ifc_protocol = 3
    /\ serial = NULL \/ serial = device[1].serial_number

\* The last usb_open accepted the interface it met.
Accepted == usb /\ pc # "open"

\* C17 (as claimed): with the vendor-id filter unset an interface of any
\* vendor is accepted, with the filter set to v only an interface of vendor v
\* (interface triple and serial filter satisfied).
C17_VendorFilter ==
    (device # NoDevice /\ InterfaceAndSerialOk) =>
        IF vendor_id = 0
        THEN Accepted
        ELSE Accepted <=> device[1].dev_vendor = vendor_id

\* C17 (amended): an interface is accepted exactly when its triple is the
\* fastboot one, it passes the serial filter, and its vendor is 0x1949
\* (Lab126) or the non-zero vendor id the filter was set to; with the filter
\* unset only vendor 0x1949 is accepted.
C17_VendorFilterOrLab126 ==
    device # NoDevice =>
        (Accepted <=>
            /\ InterfaceAndSerialOk
            /\ \/ device[1].dev_vendor = 6473
               \/ vendor_id # 0 /\ device[1].dev_vendor = vendor_id)

C17_Witness ==
    /\ device # NoDevice
    /\ InterfaceAndSerialOk
    /\ vendor_id = 0
    /\ device[1].dev_vendor = 6353
    /\ ~usb
    /\ waiting

\* C18: argc is never negative and never above the number of tokens, and
\* every iteration of the scan loop either ends the process or strictly lowers
\* argc (by 1, 2 or 3, or to 0 for `oem`): argc is a variant of the loop, which
\* therefore ends after at most as many iterations as there are tokens.
C18_ScanTerminates ==
    /\ [](argc >= 0 /\ argc <= Len(argv))
    /\ [][(pc = "scan" /\ argc > 0) =>
            \/ pc' = "exited"
            \/ /\ pc' = "scan"
               /\ argc' >= 0
               /\ \/ argc - argc' \in {1, 2, 3}
                  \/ Remaining[1] = "oem" /\ argc' = 0]_vars

C18_Witness ==
    /\ argv = <<"getvar", "version", "verify", "boot", "img.bin", "erase", "boot">>
    /\ pc = "open"
    /\ argc = 0
    /\ Len(queue) = 4

\* C19 (as claimed): whatever token run reaches do_oem_command, the string it
\* assembles, with its terminator, fits the 256-byte buffer `command`: no run
\* is killed by a write past the buffer and no command longer than the
\* buffer is queued.
C19_OemFitsBuffer ==
    /\ status # Crashed
    /\ \A i \in 1..Len(queue) :
          (queue[i].op = "command" /\ argv[origin[i].at] = "oem")
              => Len(queue[i].name) + 1 <= CommandSize

\* The positions of the buffer where a newline-terminated line starts.
TerminatedLineStarts ==
    { p \in 1..Len(reqbuf) :
        (p = 1 \/ reqbuf[p - 1] = "\n") /\ LineEnd(p) # 0 }

\* C20: setup_requirements queues records only for newline-terminated lines,
\* in buffer order and at most one per line; a blank line gives no record;
\* the bytes after the last newline give neither a record nor an error; the
\* scan position never passes the byte after the last one of the buffer.
C20_RecordsOfTerminatedLines ==
    /\ [](/\ reqpos \in 1..(Len(reqbuf) + 1)
          /\ \A i \in 1..Len(queue) :
                /\ origin[i].at \in TerminatedLineStarts
                /\ origin[i].at < reqpos
                /\ ~IsBlank(LineAt(origin[i].at))
                /\ \A j \in 1..Len(queue) : i < j => origin[i].at < origin[j].at
          /\ pc = "reqdone" =>
                /\ status = Running
                /\ {origin[i].at : i \in 1..Len(queue)}
                      = {p \in TerminatedLineStarts : HasEquals(LineAt(p))})
    /\ [][(pc = "req" /\ LineEnd(reqpos) = 0)
            => (pc' = "reqdone" /\ status' = Running /\ queue' = queue)]_vars

\* One record for the terminated line, none for the `golden=` left
\* unterminated after it.
C20_Witness ==
    /\ pc = "reqdone"
    /\ reqbuf = <<"g", "o", "l", "d", "e", "n", "=", "\n",
                  "g", "o", "l", "d", "e", "n", "=">>
    /\ Len(queue) = 1
    /\ origin[1].at = 1

====
